---- MODULE Spec2Model ----
(***************************************************************************)
(* The ipkiss ledger service: three HTTP functions (reset, balance, event) *)
(* over the Firestore collection "accounts".  Every request is handled by  *)
(* its own async handler; a handler runs atomically between two awaits and *)
(* every awaited store call is one atomic step of the store.  Amounts and  *)
(* balances are JSON numbers, modelled as integers, so `balance || 0` is   *)
(* the balance.  A transaction commits when no document it read has been   *)
(* written since, and is run again otherwise, up to MaxAttempts attempts.  *)
(* Under Spec every store call succeeds; under SpecFaults any may reject.  *)
(***************************************************************************)
EXTENDS Integers, Sequences, FiniteSets, TLC

\* Number of requests of one behaviour; each is handled by its own handler run.
NumReqs == 2

\* Attempts db.runTransaction makes before it rejects (the client's default
\* is larger; what matters is that more transactions than attempts can conflict).
MaxAttempts == 2

\* Number of transfers of a behaviour of concurrent transfers.
NumTransfers == 3

Procs == 1..NumReqs

Accounts == {"alice", "bob"}

\* Amounts of well-formed events: any non-zero JSON number passes `!amount`.
Amounts == {-1, 1}

VARIABLES
    store,            \* collection "accounts": id -> balance, for the documents that exist
    req,              \* per handler run: the request it serves
    pc,               \* per handler run: the await it is suspended at
    accountSnapshot,  \* balance/deposit/withdraw: result of accountRef.get()
    snapshot,         \* reset: ids returned by accounts.get()
    originDoc,        \* transfer: transaction.get(originRef)
    destinationDoc,   \* transfer: transaction.get(destinationRef)
    attempts,         \* transfer: number of the current transaction attempt
    dirty,            \* transfer: a document read by the current attempt was written since
    resp,             \* per handler run: the response sent
    store0,           \* history: the store the behaviour started from
    shared,           \* history, per handler run: the kinds of the requests on one of
                      \* its accounts that were in flight while it was
    quiet             \* history: the resets answered OK since the last deposit or
                      \* transfer was submitted

vars == <<store, req, pc, accountSnapshot, snapshot, originDoc, destinationDoc,
          attempts, dirty, resp, store0, shared, quiet>>

hist == <<store0, shared, quiet>>

----------------------------------------------------------------------------
(* The store *)

EmptyStore == [a \in {} |-> 0]

\* Stores a behaviour may start from: what earlier deposits have left.
InitStores ==
    {EmptyStore, [a \in {"alice"} |-> 1], [a \in Accounts |-> IF a = "alice" THEN 2 ELSE 0]}

NoDoc == [exists |-> FALSE]

\* DocumentReference.get(): a snapshot of the document
Get(s, id) == IF id \in DOMAIN s THEN [exists |-> TRUE, balance |-> s[id]] ELSE NoDoc

\* DocumentReference.set(): creates or overwrites
Set(s, id, b) == [a \in DOMAIN s \cup {id} |-> IF a = id THEN b ELSE s[a]]

\* an update that deletes a document whose balance becomes 0
UpdateDeletesEmptied(s, id, b) ==
    IF b = 0 THEN [a \in DOMAIN s \ {id} |-> s[a]]
    ELSE [a \in DOMAIN s |-> IF a = id THEN b ELSE s[a]]

\* DocumentReference.update(): the document must exist
Update(s, id, b) == [a \in DOMAIN s |-> IF a = id THEN b ELSE s[a]]

\* a batch that is never committed
DeleteNothing(s, ids) == s

\* WriteBatch of deletes, committed
DeleteAll(s, ids) == [a \in DOMAIN s \ ids |-> s[a]]

----------------------------------------------------------------------------
(* Requests *)

NoReq == [fn |-> "none"]

EventRequest(b) == [fn |-> "event", method |-> "POST", body |-> b]

DepositBodies ==
    {[type |-> "deposit", destination |-> d, amount |-> a] : d \in Accounts, a \in Amounts}

WithdrawBodies ==
    {[type |-> "withdraw", origin |-> o, amount |-> a] : o \in Accounts, a \in Amounts}

TransferBodies ==
    {[type |-> "transfer", origin |-> o, amount |-> a, destination |-> d] :
        o \in Accounts, a \in Amounts, d \in Accounts}

\* bodies with a field missing, empty or zero, and unknown event types
MalformedBodies ==
    { [type |-> "deposit", destination |-> "alice"],
      [type |-> "deposit", amount |-> 1],
      [type |-> "deposit", destination |-> "alice", amount |-> 0],
      [type |-> "withdraw", origin |-> "alice"],
      [type |-> "withdraw", origin |-> "", amount |-> 1],
      [type |-> "withdraw", origin |-> "alice", amount |-> 0],
      [type |-> "transfer", origin |-> "alice", amount |-> 1],
      [type |-> "transfer", amount |-> 1, destination |-> "bob"],
      [type |-> "transfer", origin |-> "alice", destination |-> "bob"],
      [type |-> "transfer", origin |-> "alice", amount |-> 0, destination |-> "bob"],
      [type |-> "refund", origin |-> "alice", amount |-> 1] }

Requests ==
    {[fn |-> "reset", method |-> "POST"]}
    \cup {[fn |-> "balance", method |-> "GET", query |-> [account_id |-> a]] :
            a \in Accounts \cup {""}}
    \cup {EventRequest(b) :
            b \in DepositBodies \cup WithdrawBodies \cup TransferBodies \cup MalformedBodies}
    \cup {[fn |-> "event", method |-> "GET", body |-> [type |-> "deposit"]]}

\* JavaScript `!x` for a string field of the body: absent or empty
NotStr(b, f) == f \notin DOMAIN b \/ b[f] = ""

\* a check that takes only an absent number for a missing one
NotNumAbsent(b, f) == f \notin DOMAIN b

\* JavaScript `!x` for a number field of the body: absent or 0
NotNum(b, f) == f \notin DOMAIN b \/ b[f] = 0

----------------------------------------------------------------------------
(* Responses *)

NoResp == [status |-> 0, type |-> "none"]

\* response.status(code).send({status: msg})
SendStatus(code, msg) == [status |-> code, type |-> "status", body |-> msg]

\* response.status(code).send(text)
SendText(code, text) == [status |-> code, type |-> "text", body |-> text]

\* response.status(code).send(obj); the object is kept under a field of its own, so
\* that a JSON answer and a text answer are different records whatever they hold
SendJson(code, obj) == [status |-> code, type |-> "json", json |-> obj]

Digit(d) ==
    CASE d = 0 -> "0" [] d = 1 -> "1" [] d = 2 -> "2" [] d = 3 -> "3" [] d = 4 -> "4"
      [] d = 5 -> "5" [] d = 6 -> "6" [] d = 7 -> "7" [] d = 8 -> "8" [] d = 9 -> "9"

\* a conversion that keeps only the last digit
NatToStringLastDigit(n) == Digit(n % 10)

RECURSIVE NatToString(_)
NatToString(n) == IF n < 10 THEN Digit(n) ELSE NatToString(n \div 10) \o Digit(n % 10)

\* Number.prototype.toString() of an integer
NumberToString(n) == IF n < 0 THEN "-" \o NatToString(0 - n) ELSE NatToString(n)

----------------------------------------------------------------------------
(* Handler prefixes: the code a handler runs before its first await *)

Answer(r) == [pc |-> "done", resp |-> r]
Await(label) == [pc |-> label, resp |-> NoResp]

ResetEntry(r) ==
    IF r.method # "POST" THEN Answer(SendStatus(405, "Method Not Allowed."))
    ELSE Await("reset_get")

BalanceEntry(r) ==
    IF r.method # "GET" THEN Answer(SendStatus(405, "Method Not Allowed."))
    ELSE IF r.query.account_id = "" THEN Answer(SendStatus(400, "Missing account ID."))
    ELSE Await("balance_get")

\* an event handler that validates only after it has started on the store: it
\* checks the method and the type, and no field
EventEntryUnvalidated(r) ==
    LET b == r.body
        eventType == IF "type" \in DOMAIN b THEN b.type ELSE ""
    IN  IF r.method # "POST" THEN Answer(SendStatus(405, "Method Not Allowed."))
        ELSE IF eventType = "deposit" THEN Await("deposit_get")
        ELSE IF eventType = "withdraw" THEN Await("withdraw_get")
        ELSE IF eventType = "transfer" THEN Await("tx_get_origin")
        ELSE Answer(SendStatus(400, "Invalid event type."))

EventEntry(r) ==
    LET b == r.body
        eventType == IF "type" \in DOMAIN b THEN b.type ELSE ""
    IN  IF r.method # "POST" THEN Answer(SendStatus(405, "Method Not Allowed."))
        ELSE IF eventType = "deposit" THEN
            IF NotStr(b, "destination") \/ NotNum(b, "amount")
            THEN Answer(SendStatus(400, "Missing destination or amount."))
            ELSE Await("deposit_get")
        ELSE IF eventType = "withdraw" THEN
            IF NotStr(b, "origin") \/ NotNum(b, "amount")
            THEN Answer(SendStatus(400, "Missing origin or amount."))
            ELSE Await("withdraw_get")
        ELSE IF eventType = "transfer" THEN
            IF NotStr(b, "origin") \/ NotNum(b, "amount") \/ NotStr(b, "destination")
            THEN Answer(SendStatus(400, "Missing origin, amount, or destination."))
            ELSE Await("tx_get_origin")
        ELSE Answer(SendStatus(400, "Invalid event type."))

Entry(r) ==
    CASE r.fn = "reset" -> ResetEntry(r)
      [] r.fn = "balance" -> BalanceEntry(r)
      [] r.fn = "event" -> EventEntry(r)

\* the accounts a request that reaches the store addresses
Touches(r) ==
    CASE r.fn = "reset" -> Accounts
      [] r.fn = "balance" -> {r.query.account_id}
      [] r.fn = "event" /\ r.body.type = "deposit" -> {r.body.destination}
      [] r.fn = "event" /\ r.body.type = "withdraw" -> {r.body.origin}
      [] r.fn = "event" /\ r.body.type = "transfer" -> {r.body.origin, r.body.destination}
      [] OTHER -> {}

\* reset, balance, or the type of the event
Kind(r) == IF r.fn = "event" THEN r.body.type ELSE r.fn

InFlight(p) == pc[p] \notin {"idle", "done", "failed"}

\* documents the current transaction attempt of p has read
ReadSet(p) ==
    CASE pc[p] = "tx_get_destination" -> {req[p].body.origin}
      [] pc[p] = "tx_commit" -> {req[p].body.origin, req[p].body.destination}
      [] OTHER -> {}

\* a write of p to the documents W conflicts with every other attempt that read one
MarkDirty(p, W) == [q \in DOMAIN dirty |-> dirty[q] \/ (q # p /\ ReadSet(q) \cap W # {})]

----------------------------------------------------------------------------
Init ==
    /\ store \in InitStores
    /\ req = [p \in Procs |-> NoReq]
    /\ pc = [p \in Procs |-> "idle"]
    /\ accountSnapshot = [p \in Procs |-> NoDoc]
    /\ snapshot = [p \in Procs |-> {}]
    /\ originDoc = [p \in Procs |-> NoDoc]
    /\ destinationDoc = [p \in Procs |-> NoDoc]
    /\ attempts = [p \in Procs |-> 0]
    /\ dirty = [p \in Procs |-> FALSE]
    /\ resp = [p \in Procs |-> NoResp]
    /\ store0 = store
    /\ shared = [p \in Procs |-> {}]
    /\ quiet = {}

\* A request arrives and its handler runs up to its first await.
Submit(p, r) ==
    /\ pc[p] = "idle"
    /\ \A q \in Procs : q < p => pc[q] # "idle"
    /\ LET e == Entry(r)
           meets(q) == q # p /\ InFlight(q) /\ Touches(req[q]) \cap Touches(r) # {}
       IN  /\ req' = [req EXCEPT ![p] = r]
           /\ pc' = [pc EXCEPT ![p] = e.pc]
           /\ resp' = [resp EXCEPT ![p] = e.resp]
           /\ attempts' = [attempts EXCEPT ![p] = IF e.pc = "tx_get_origin" THEN 1 ELSE 0]
           /\ shared' = IF e.pc = "done" THEN shared
                        ELSE [q \in Procs |->
                                IF q = p THEN {Kind(req[q2]) : q2 \in {x \in Procs : meets(x)}}
                                ELSE IF meets(q) THEN shared[q] \cup {Kind(r)}
                                ELSE shared[q]]
           /\ quiet' = IF e.pc \in {"deposit_get", "tx_get_origin"} THEN {} ELSE quiet
    /\ UNCHANGED <<store, accountSnapshot, snapshot, originDoc, destinationDoc, dirty,
                   store0>>

----------------------------------------------------------------------------
(* reset *)

\* const snapshot = await accounts.get()
ResetGet(p) ==
    /\ pc[p] = "reset_get"
    /\ snapshot' = [snapshot EXCEPT ![p] = DOMAIN store]
    /\ pc' = [pc EXCEPT ![p] = "reset_commit"]
    /\ UNCHANGED <<store, req, accountSnapshot, originDoc, destinationDoc, attempts,
                   dirty, resp, hist>>

\* await batch.commit(), one delete per document of the snapshot; response.send("OK")
ResetCommit(p) ==
    /\ pc[p] = "reset_commit"
    /\ store' = DeleteAll(store, snapshot[p])
    /\ dirty' = MarkDirty(p, snapshot[p])
    /\ resp' = [resp EXCEPT ![p] = SendText(200, "OK")]
    /\ pc' = [pc EXCEPT ![p] = "done"]
    /\ snapshot' = [snapshot EXCEPT ![p] = {}]
    /\ quiet' = quiet \cup {p}
    /\ UNCHANGED <<req, accountSnapshot, originDoc, destinationDoc, attempts, store0,
                   shared>>

----------------------------------------------------------------------------
(* balance *)

\* a balance handler that answers 200 for an account that does not exist
BalanceResponseOk(doc) ==
    IF ~doc.exists THEN SendText(200, "0")
    ELSE SendText(200, NumberToString(doc.balance))

\* the response of the balance handler to the snapshot it read
BalanceResponse(doc) ==
    IF ~doc.exists THEN SendText(404, "0")
    ELSE SendText(200, NumberToString(doc.balance))

\* const accountSnapshot = await accountRef.get(), and the response
BalanceGet(p) ==
    /\ pc[p] = "balance_get"
    /\ resp' = [resp EXCEPT ![p] = BalanceResponse(Get(store, req[p].query.account_id))]
    /\ pc' = [pc EXCEPT ![p] = "done"]
    /\ UNCHANGED <<store, req, accountSnapshot, snapshot, originDoc, destinationDoc,
                   attempts, dirty, hist>>

----------------------------------------------------------------------------
(* event: deposit *)

\* const accountSnapshot = await accountRef.get()
DepositGet(p) ==
    /\ pc[p] = "deposit_get"
    /\ accountSnapshot' = [accountSnapshot EXCEPT ![p] = Get(store, req[p].body.destination)]
    /\ pc' = [pc EXCEPT ![p] = "deposit_write"]
    /\ UNCHANGED <<store, req, snapshot, originDoc, destinationDoc, attempts, dirty,
                   resp, hist>>

\* a deposit that overwrites the balance with the amount
DepositNewBalanceOverwrite(doc, amount) == amount

\* the balance the deposit branch writes and reports, from the snapshot it read
DepositNewBalance(doc, amount) ==
    IF ~doc.exists THEN amount ELSE doc.balance + amount

\* a deposit that adds the amount to the balance the store holds at the write
DepositStoreIncrement(s, doc, destination, amount) ==
    Set(s, destination, (IF destination \in DOMAIN s THEN s[destination] ELSE 0) + amount)

\* the store after the deposit's write: set() when the snapshot did not exist,
\* update() otherwise
DepositStore(s, doc, destination, amount) ==
    IF ~doc.exists THEN Set(s, destination, DepositNewBalance(doc, amount))
    ELSE Update(s, destination, DepositNewBalance(doc, amount))

\* await accountRef.set(...) or await accountRef.update(...), and the response;
\* update() of a document that is gone rejects, and the handler has no catch
DepositWrite(p) ==
    LET b == req[p].body
        doc == accountSnapshot[p]
        rejects == doc.exists /\ b.destination \notin DOMAIN store
    IN  /\ pc[p] = "deposit_write"
        /\ store' = IF rejects THEN store ELSE DepositStore(store, doc, b.destination, b.amount)
        /\ dirty' = IF rejects THEN dirty ELSE MarkDirty(p, {b.destination})
        /\ resp' = [resp EXCEPT ![p] =
                      IF rejects THEN NoResp
                      ELSE SendJson(201, [destination |->
                              [id |-> b.destination,
                               balance |-> DepositNewBalance(doc, b.amount)]])]
        /\ pc' = [pc EXCEPT ![p] = IF rejects THEN "failed" ELSE "done"]
        /\ accountSnapshot' = [accountSnapshot EXCEPT ![p] = NoDoc]
        /\ UNCHANGED <<req, snapshot, originDoc, destinationDoc, attempts, hist>>

----------------------------------------------------------------------------
(* event: withdraw *)

\* a withdraw branch that does not compare the balance with the amount
WithdrawCheckNoFunds(doc, amount) ==
    IF ~doc.exists THEN Answer(SendText(404, "0"))
    ELSE Await("withdraw_write")

\* what the withdraw branch does with the snapshot it read: answer, or go on to write
WithdrawCheck(doc, amount) ==
    IF ~doc.exists THEN Answer(SendText(404, "0"))
    ELSE IF doc.balance < amount THEN Answer(SendStatus(400, "Insufficient funds."))
    ELSE Await("withdraw_write")

\* const accountSnapshot = await accountRef.get(), and the two checks
WithdrawGet(p) ==
    LET doc == Get(store, req[p].body.origin)
        c == WithdrawCheck(doc, req[p].body.amount)
    IN  /\ pc[p] = "withdraw_get"
        /\ accountSnapshot' = [accountSnapshot EXCEPT ![p] =
                                 IF c.pc = "done" THEN NoDoc ELSE doc]
        /\ pc' = [pc EXCEPT ![p] = c.pc]
        /\ resp' = [resp EXCEPT ![p] = c.resp]
        /\ UNCHANGED <<store, req, snapshot, originDoc, destinationDoc, attempts, dirty,
                       hist>>

\* a withdraw that writes back the balance it read
WithdrawNewBalanceNoDebit(doc, amount) == doc.balance

\* const newBalance = currentBalance - amount
WithdrawNewBalance(doc, amount) == doc.balance - amount

\* await accountRef.update({balance: newBalance}), and the response
WithdrawWrite(p) ==
    LET b == req[p].body
        doc == accountSnapshot[p]
        rejects == b.origin \notin DOMAIN store
    IN  /\ pc[p] = "withdraw_write"
        /\ store' = IF rejects THEN store
                    ELSE Update(store, b.origin, WithdrawNewBalance(doc, b.amount))
        /\ dirty' = IF rejects THEN dirty ELSE MarkDirty(p, {b.origin})
        /\ resp' = [resp EXCEPT ![p] =
                      IF rejects THEN NoResp
                      ELSE SendJson(201, [origin |->
                              [id |-> b.origin,
                               balance |-> WithdrawNewBalance(doc, b.amount)]])]
        /\ pc' = [pc EXCEPT ![p] = IF rejects THEN "failed" ELSE "done"]
        /\ accountSnapshot' = [accountSnapshot EXCEPT ![p] = NoDoc]
        /\ UNCHANGED <<req, snapshot, originDoc, destinationDoc, attempts, hist>>

----------------------------------------------------------------------------
(* event: transfer *)

\* a transaction function that does not check the funds
TransferThrowsUnchecked(oDoc, amount) ==
    IF ~oDoc.exists THEN "ORIGIN_NOT_FOUND" ELSE ""

\* the checks of the transaction function on the origin it read: the message of
\* the error it throws, "" when it goes on
TransferThrows(oDoc, amount) ==
    IF ~oDoc.exists THEN "ORIGIN_NOT_FOUND"
    ELSE IF oDoc.balance < amount THEN "INSUFFICIENT_FUNDS"
    ELSE ""

\* a transaction function that creates a missing destination and leaves it at 0
TransferWritesNoCredit(dDoc, origin, newOriginBalance, destination, newDestinationBalance) ==
    (IF dDoc.exists
     THEN <<[op |-> "update", id |-> destination, balance |-> newDestinationBalance]>>
     ELSE <<[op |-> "set", id |-> destination, balance |-> 0]>>)
    \o <<[op |-> "update", id |-> origin, balance |-> newOriginBalance]>>

\* the writes the transaction function buffers, in the order it issues them:
\* set() of a missing destination to 0, update() of the origin, update() of the
\* destination
TransferWrites(dDoc, origin, newOriginBalance, destination, newDestinationBalance) ==
    (IF dDoc.exists THEN <<>> ELSE <<[op |-> "set", id |-> destination, balance |-> 0]>>)
    \o <<[op |-> "update", id |-> origin, balance |-> newOriginBalance],
         [op |-> "update", id |-> destination, balance |-> newDestinationBalance]>>

\* The function given to db.runTransaction, as a function of the two documents
\* it read: the error it throws, or the writes it buffers and the value it returns.
TransferBody(oDoc, dDoc, origin, amount, destination) ==
    IF TransferThrows(oDoc, amount) # "" THEN [throw |-> TransferThrows(oDoc, amount)]
    ELSE
        LET originBalance == oDoc.balance
            destinationBalance == IF dDoc.exists THEN dDoc.balance ELSE 0
            newOriginBalance == originBalance - amount
            newDestinationBalance == destinationBalance + amount
        IN  [throw |-> "",
             writes |-> TransferWrites(dDoc, origin, newOriginBalance, destination,
                                       newDestinationBalance),
             result |-> [origin |-> [id |-> origin, balance |-> newOriginBalance],
                         destination |-> [id |-> destination,
                                          balance |-> newDestinationBalance]]]

\* the buffered writes of a transaction, applied in the order they were issued
RECURSIVE ApplyWrites(_, _)
ApplyWrites(s, ws) ==
    IF ws = <<>> THEN s
    ELSE LET w == Head(ws)
         IN  ApplyWrites(IF w.op = "set" THEN Set(s, w.id, w.balance)
                         ELSE Update(s, w.id, w.balance), Tail(ws))

\* a catch block that answers every error alike
TransferCatchGeneric(message) == SendStatus(500, "Transaction failed.")

\* the catch block of the transfer branch
TransferCatch(message) ==
    IF message = "ORIGIN_NOT_FOUND" THEN SendText(404, "0")
    ELSE IF message = "INSUFFICIENT_FUNDS" THEN SendStatus(400, "Insufficient funds.")
    ELSE SendStatus(500, "Transaction failed.")

\* const originDoc = await transaction.get(originRef)
TxGetOrigin(p) ==
    /\ pc[p] = "tx_get_origin"
    /\ originDoc' = [originDoc EXCEPT ![p] = Get(store, req[p].body.origin)]
    /\ pc' = [pc EXCEPT ![p] = "tx_get_destination"]
    /\ UNCHANGED <<store, req, accountSnapshot, snapshot, destinationDoc, attempts,
                   dirty, resp, hist>>

\* let destinationDoc = await transaction.get(destinationRef), and the rest of the
\* function: it throws (the transaction is rolled back and the handler answers) or
\* returns with its writes buffered
TxGetDestination(p) ==
    LET b == req[p].body
        dDoc == Get(store, b.destination)
        out == TransferBody(originDoc[p], dDoc, b.origin, b.amount, b.destination)
        thrown == out.throw # ""
    IN  /\ pc[p] = "tx_get_destination"
        /\ destinationDoc' = [destinationDoc EXCEPT ![p] = IF thrown THEN NoDoc ELSE dDoc]
        /\ originDoc' = [originDoc EXCEPT ![p] = IF thrown THEN NoDoc ELSE @]
        /\ dirty' = [dirty EXCEPT ![p] = IF thrown THEN FALSE ELSE @]
        /\ resp' = [resp EXCEPT ![p] = IF thrown THEN TransferCatch(out.throw) ELSE @]
        /\ pc' = [pc EXCEPT ![p] = IF thrown THEN "done" ELSE "tx_commit"]
        /\ UNCHANGED <<store, req, accountSnapshot, snapshot, attempts, hist>>

\* a commit that is not atomic: only the first buffered write has landed
CommitStoreTorn(s, ws) == ApplyWrites(s, <<Head(ws)>>)

\* the store after the commit of a transaction that buffered the writes ws
CommitStore(s, ws) == ApplyWrites(s, ws)

\* a store that validates nothing: every commit is accepted
ConflictIgnored(p) == FALSE

\* the store refuses the commit of p's attempt: a document it read was written since
Conflict(p) == dirty[p]

\* The commit of the transaction: all its writes at once when no document it read
\* was written since; otherwise the attempt is aborted and db.runTransaction runs
\* the function again, or rejects when no attempt is left.
TxCommit(p) ==
    LET b == req[p].body
        out == TransferBody(originDoc[p], destinationDoc[p], b.origin, b.amount,
                            b.destination)
        retry == Conflict(p) /\ attempts[p] < MaxAttempts
    IN  /\ pc[p] = "tx_commit"
        /\ store' = IF Conflict(p) THEN store ELSE CommitStore(store, out.writes)
        /\ dirty' = IF Conflict(p) THEN [dirty EXCEPT ![p] = FALSE]
                    ELSE MarkDirty(p, {b.origin, b.destination})
        /\ attempts' = [attempts EXCEPT ![p] = IF retry THEN @ + 1 ELSE @]
        /\ resp' = [resp EXCEPT ![p] =
                      IF ~Conflict(p) THEN SendJson(201, out.result)
                      ELSE IF retry THEN @
                      ELSE TransferCatch("ABORTED")]
        /\ pc' = [pc EXCEPT ![p] = IF retry THEN "tx_get_origin" ELSE "done"]
        /\ originDoc' = [originDoc EXCEPT ![p] = NoDoc]
        /\ destinationDoc' = [destinationDoc EXCEPT ![p] = NoDoc]
        /\ UNCHANGED <<req, accountSnapshot, snapshot, hist>>

----------------------------------------------------------------------------
(* A store call fails for a reason of the infrastructure *)

StoreCalls ==
    {"reset_get", "reset_commit", "balance_get", "deposit_get", "deposit_write",
     "withdraw_get", "withdraw_write", "tx_get_origin", "tx_get_destination", "tx_commit"}

\* handlers none of which catches the rejection of a store call
OnRejectUncaught(label) == [pc |-> "failed", resp |-> NoResp]

\* what the handler suspended at `label` does when the awaited call rejects:
\* reset and transfer catch it, the other handlers do not
OnReject(label) ==
    IF label \in {"reset_get", "reset_commit"}
    THEN Answer(SendText(500, "Error deleting accounts"))
    ELSE IF label \in {"tx_get_origin", "tx_get_destination", "tx_commit"}
    THEN Answer(TransferCatch("UNAVAILABLE"))
    ELSE [pc |-> "failed", resp |-> NoResp]

\* the awaited store call of p rejects: nothing is written, and the handler goes on
\* in its catch block if it has one
StoreError(p) ==
    /\ pc[p] \in StoreCalls
    /\ UNCHANGED <<store, req, attempts, hist>>
    /\ pc' = [pc EXCEPT ![p] = OnReject(pc[p]).pc]
    /\ resp' = [resp EXCEPT ![p] = OnReject(pc[p]).resp]
    /\ accountSnapshot' = [accountSnapshot EXCEPT ![p] = NoDoc]
    /\ snapshot' = [snapshot EXCEPT ![p] = {}]
    /\ originDoc' = [originDoc EXCEPT ![p] = NoDoc]
    /\ destinationDoc' = [destinationDoc EXCEPT ![p] = NoDoc]
    /\ dirty' = [dirty EXCEPT ![p] = FALSE]

----------------------------------------------------------------------------
Next ==
    \E p \in Procs :
        \/ \E r \in Requests : Submit(p, r)
        \/ ResetGet(p)
        \/ ResetCommit(p)
        \/ BalanceGet(p)
        \/ DepositGet(p)
        \/ DepositWrite(p)
        \/ WithdrawGet(p)
        \/ WithdrawWrite(p)
        \/ TxGetOrigin(p)
        \/ TxGetDestination(p)
        \/ TxCommit(p)

\* every store call succeeds
Spec == Init /\ [][Next]_vars

\* Concurrent transfers: every handler run serves a transfer, and all of them have
\* been submitted before the first store call.  Runs that differ only in which
\* handler serves which transfer are the same, so the transfers are drawn in order.
TransferRank(b) ==
    (IF b.origin = "alice" THEN 0 ELSE 4) + (IF b.destination = "alice" THEN 0 ELSE 2)
      + (IF b.amount < 0 THEN 0 ELSE 1)

InitTransfers ==
    LET T == 1..NumTransfers
    IN  /\ store \in InitStores
        /\ req \in {r \in [T -> {EventRequest(b) : b \in TransferBodies}] :
                       \A p, q \in T :
                          p < q => TransferRank(r[p].body) <= TransferRank(r[q].body)}
        /\ pc = [p \in T |-> Entry(req[p]).pc]
        /\ accountSnapshot = [p \in T |-> NoDoc]
        /\ snapshot = [p \in T |-> {}]
        /\ originDoc = [p \in T |-> NoDoc]
        /\ destinationDoc = [p \in T |-> NoDoc]
        /\ attempts = [p \in T |-> 1]
        /\ dirty = [p \in T |-> FALSE]
        /\ resp = [p \in T |-> Entry(req[p]).resp]
        /\ store0 = store
        /\ shared = [p \in T |->
                        {Kind(req[q]) : q \in {x \in T \ {p} :
                            Touches(req[x]) \cap Touches(req[p]) # {}}}]
        /\ quiet = {}

NextTransfers ==
    \E p \in 1..NumTransfers : TxGetOrigin(p) \/ TxGetDestination(p) \/ TxCommit(p)

SpecTransfers == InitTransfers /\ [][NextTransfers]_vars

\* a step of the transfer handler p: one of its store calls settles, resolved or
\* rejected
TransferStep(p) == TxGetOrigin(p) \/ TxGetDestination(p) \/ TxCommit(p) \/ StoreError(p)

NextTransferFaults == \E p \in 1..NumTransfers : TransferStep(p)

\* concurrent transfers of positive amounts
InitTransferFaults == InitTransfers /\ \A p \in DOMAIN req : req[p].body.amount > 0

\* Concurrent transfers over a store whose calls may fail.  Every store call
\* settles: the client resolves or rejects each call within its timeout, and the
\* event loop then runs the handler that awaits it.
SpecTransferFaults ==
    /\ InitTransferFaults
    /\ [][NextTransferFaults]_vars
    /\ \A p \in 1..NumTransfers : WF_vars(TransferStep(p))

\* A client that sends its requests one after the other, each after the answer to
\* the one before: a deposit to alice, a balance query, a transfer from alice to
\* bob, a withdraw from alice, and a balance query for each of the two accounts.
ScenarioDeposits == {30, 100, 250}
ScenarioTransfers == {40, 200}
ScenarioWithdraws == {10, 1000}

Scenario(d, t, w) ==
    << EventRequest([type |-> "deposit", destination |-> "alice", amount |-> d]),
       [fn |-> "balance", method |-> "GET", query |-> [account_id |-> "alice"]],
       EventRequest([type |-> "transfer", origin |-> "alice", amount |-> t,
                     destination |-> "bob"]),
       EventRequest([type |-> "withdraw", origin |-> "alice", amount |-> w]),
       [fn |-> "balance", method |-> "GET", query |-> [account_id |-> "alice"]],
       [fn |-> "balance", method |-> "GET", query |-> [account_id |-> "bob"]] >>

InitScenario ==
    \E d \in ScenarioDeposits, t \in ScenarioTransfers, w \in ScenarioWithdraws :
        LET S == DOMAIN Scenario(d, t, w)
        IN  /\ store = EmptyStore
            /\ req = [p \in S |-> Scenario(d, t, w)[p]]
            /\ pc = [p \in S |-> "idle"]
            /\ accountSnapshot = [p \in S |-> NoDoc]
            /\ snapshot = [p \in S |-> {}]
            /\ originDoc = [p \in S |-> NoDoc]
            /\ destinationDoc = [p \in S |-> NoDoc]
            /\ attempts = [p \in S |-> 0]
            /\ dirty = [p \in S |-> FALSE]
            /\ resp = [p \in S |-> NoResp]
            /\ store0 = store
            /\ shared = [p \in S |-> {}]
            /\ quiet = {}

\* the client sends its next request: every earlier one has been answered
ScenarioSubmit(p) ==
    /\ pc[p] = "idle"
    /\ \A q \in DOMAIN pc : q < p => pc[q] = "done"
    /\ pc' = [pc EXCEPT ![p] = Entry(req[p]).pc]
    /\ resp' = [resp EXCEPT ![p] = Entry(req[p]).resp]
    /\ attempts' = [attempts EXCEPT ![p] = IF Entry(req[p]).pc = "tx_get_origin" THEN 1 ELSE 0]
    /\ UNCHANGED <<store, req, accountSnapshot, snapshot, originDoc, destinationDoc,
                   dirty, hist>>

NextScenario ==
    \E p \in DOMAIN pc :
        \/ ScenarioSubmit(p)
        \/ BalanceGet(p)
        \/ DepositGet(p)
        \/ DepositWrite(p)
        \/ WithdrawGet(p)
        \/ WithdrawWrite(p)
        \/ TxGetOrigin(p)
        \/ TxGetDestination(p)
        \/ TxCommit(p)

SpecScenario == InitScenario /\ [][NextScenario]_vars

NextFaults == Next \/ \E p \in Procs : StoreError(p)

\* store calls may fail
SpecFaults == Init /\ [][NextFaults]_vars
----------------------------------------------------------------------------
(* Properties *)

\* the balance of an account, an account that does not exist counting as 0
BalanceOf(s, id) == IF id \in DOMAIN s THEN s[id] ELSE 0

\* p is a handler run inside the transfer branch
InTransfer(p) == pc[p] \in {"tx_get_origin", "tx_get_destination", "tx_commit"}

\* the step is p's transaction committing, answered 201
Commits(p) == pc[p] = "tx_commit" /\ pc'[p] = "done" /\ resp'[p].status = 201

\* the step is p's withdraw writing the new balance, answered 201
Withdraws(p) == pc[p] = "withdraw_write" /\ pc'[p] = "done"

NonNegative(s) == \A a \in DOMAIN s : s[a] >= 0

\* two responses are the same response
SameResponse(r1, r2) == r1.status = r2.status /\ r1.type = r2.type /\ r1 = r2

\* C1: a transfer answered 201 leaves balance(origin) + balance(destination) as it
\* was before the commit, an account that does not exist counting as 0.
C1_TransferConservesPairTotal ==
    [][\A p \in DOMAIN pc :
         Commits(p) =>
            LET b == req[p].body
            IN  BalanceOf(store', b.origin) + BalanceOf(store', b.destination)
                  = BalanceOf(store, b.origin) + BalanceOf(store, b.destination)]_vars

\* C2: when no balance is negative, the write of a withdraw and the commit of a
\* transfer leave no balance negative.
C2_NoNegativeBalance ==
    [][\A p \in DOMAIN pc :
         (Withdraws(p) \/ Commits(p)) /\ NonNegative(store) => NonNegative(store')]_vars

\* C3: every step of a transfer leaves the store as it was, or is the commit answered
\* 201, after which the destination exists and holds the credit, the origin (when it
\* is another account) holds the debit, and every other account is as it was: no state
\* holds the debit without the credit, or the destination created and not credited.
C3_TransferAllOrNothing ==
    [][\A p \in DOMAIN pc :
         InTransfer(p) /\ pc'[p] # pc[p] =>
            LET b == req[p].body
                credited == /\ b.destination \in DOMAIN store'
                            /\ store'[b.destination]
                                 = BalanceOf(store, b.destination) + b.amount
                debited == /\ b.origin \in DOMAIN store /\ b.origin \in DOMAIN store'
                           /\ store'[b.origin] = store[b.origin] - b.amount
                others == /\ DOMAIN store' = DOMAIN store \cup {b.destination}
                          /\ \A a \in DOMAIN store \ {b.origin, b.destination} :
                                store'[a] = store[a]
            IN  \/ store' = store
                \/ /\ Commits(p)
                   /\ credited
                   /\ b.origin # b.destination => debited
                   /\ others]_vars

\* C3 witness: a transfer that created its destination was answered 201 while a
\* balance query on one of its accounts, still waiting for its read, was in flight.
C3_Witness ==
    \E p, q \in DOMAIN pc :
        /\ Kind(req[p]) = "transfer" /\ resp[p].status = 201
        /\ req[p].body.destination \notin DOMAIN store0
        /\ "balance" \in shared[p]
        /\ pc[q] = "balance_get"

\* the transfer b run alone on the store s, from its first read to its answer
TransferAlone(s, b) ==
    LET out == TransferBody(Get(s, b.origin), Get(s, b.destination), b.origin, b.amount,
                            b.destination)
    IN  IF out.throw # "" THEN [store |-> s, resp |-> TransferCatch(out.throw)]
        ELSE [store |-> CommitStore(s, out.writes), resp |-> SendJson(201, out.result)]

\* the transfers of the handler runs order[1], order[2], ... run one after another
\* on s: the store they leave and their answers
RECURSIVE TransfersInOrder(_, _)
TransfersInOrder(s, order) ==
    IF order = <<>> THEN [store |-> s, resp |-> <<>>]
    ELSE LET first == TransferAlone(s, req[Head(order)].body)
             rest == TransfersInOrder(first.store, Tail(order))
         IN  [store |-> rest.store, resp |-> <<first.resp>> \o rest.resp]

Orders(S) ==
    {o \in [1..Cardinality(S) -> S] : \A i, j \in 1..Cardinality(S) : o[i] = o[j] => i = j}

\* the store and the answers of the runs S are those of the transfers of S run one
\* after another, in some order, on the initial store
Serializable(S) ==
    \E o \in Orders(S) :
        LET seq == TransfersInOrder(store0, o)
        IN  /\ seq.store = store
            /\ \A i \in 1..Cardinality(S) : SameResponse(seq.resp[i], resp[o[i]])

\* every request is a transfer that reached the store, and every one is answered
OnlyTransfersDone ==
    \A p \in DOMAIN pc : Kind(req[p]) = "transfer" /\ attempts[p] >= 1 /\ pc[p] = "done"

\* C4 as claimed: when the requests are transfers only, the final balances and the
\* answer of every transfer are those of the same transfers run one after another.
C4_TransfersSerializable == OnlyTransfersDone => Serializable(DOMAIN pc)

\* C4 as amended: when the requests are transfers only, the final balances and the
\* answers of the transfers not answered 500 are those of these transfers run one
\* after another; a transfer answered 500 has left nothing in the store.
C4_CommittedTransfersSerializable ==
    OnlyTransfersDone => Serializable({p \in DOMAIN pc : resp[p].status # 500})

\* C4 witness: transfers on common accounts, all answered, one of them 201 by an
\* attempt that followed a conflict, and another 201 too.
C4_Witness ==
    /\ OnlyTransfersDone
    /\ \E p, q \in DOMAIN pc :
          /\ p # q
          /\ "transfer" \in shared[p]
          /\ attempts[p] > 1
          /\ resp[p].status = 201 /\ resp[q].status = 201

\* C5: a transaction decides on the origin as the store held it when it was read;
\* when that origin exists with balance < amount the transfer is answered 400
\* "Insufficient funds.", and no step of a transfer answered 400 changes the store:
\* origin and destination keep their balances and no destination is created.
C5_InsufficientFundsNoEffect ==
    [][\A p \in DOMAIN pc :
         InTransfer(p) /\ pc'[p] # pc[p] =>
            LET b == req[p].body
            IN  /\ pc[p] = "tx_get_origin" => originDoc'[p] = Get(store, b.origin)
                /\ (/\ pc[p] = "tx_get_destination"
                    /\ originDoc[p].exists
                    /\ originDoc[p].balance < b.amount)
                   => /\ pc'[p] = "done"
                      /\ SameResponse(resp'[p], SendStatus(400, "Insufficient funds."))
                /\ resp'[p].status # 201 => store' = store]_vars

\* C5 witness: a transfer from an existing origin was answered 400 "Insufficient
\* funds." and its destination does not exist.
C5_Witness ==
    \E p \in DOMAIN pc :
        /\ Kind(req[p]) = "transfer" /\ attempts[p] >= 1
        /\ SameResponse(resp[p], SendStatus(400, "Insufficient funds."))
        /\ req[p].body.origin \in DOMAIN store
        /\ req[p].body.destination \notin DOMAIN store

\* C6: when the origin did not exist as the transaction read it, the transfer is
\* answered 404 with body "0", and the step that answers so leaves the store as it
\* was: no account is created and no balance changes.
C6_OriginNotFoundNoEffect ==
    [][\A p \in DOMAIN pc :
         InTransfer(p) /\ pc'[p] # pc[p] =>
            LET b == req[p].body
            IN  /\ pc[p] = "tx_get_origin" /\ b.origin \notin DOMAIN store
                   => ~originDoc'[p].exists /\ store' = store
                /\ pc[p] = "tx_get_destination" /\ ~originDoc[p].exists
                   => /\ pc'[p] = "done"
                      /\ SameResponse(resp'[p], SendText(404, "0"))
                /\ resp'[p].status = 404 => store' = store]_vars

\* C6 witness: a transfer was answered 404 "0" and neither its origin nor its
\* destination exists.
C6_Witness ==
    \E p \in DOMAIN pc :
        /\ Kind(req[p]) = "transfer" /\ attempts[p] >= 1
        /\ SameResponse(resp[p], SendText(404, "0"))
        /\ req[p].body.origin \notin DOMAIN store
        /\ req[p].body.destination \notin DOMAIN store

\* C7: the commit, answered 201, of a transfer of amount a whose destination does
\* not exist finds the origin with a balance B >= a, creates the destination with
\* balance a, leaves the origin with B - a and every other account as it was, in
\* one step, and the response reports B - a and a.
C7_TransferCreatesDestination ==
    [][\A p \in DOMAIN pc :
         Commits(p) /\ req[p].body.destination \notin DOMAIN store =>
            LET b == req[p].body
            IN  /\ b.origin \in DOMAIN store
                /\ store[b.origin] >= b.amount
                /\ store' = [a \in DOMAIN store \cup {b.destination} |->
                               IF a = b.destination THEN b.amount
                               ELSE IF a = b.origin THEN store[a] - b.amount
                               ELSE store[a]]
                /\ resp'[p].type = "json"
                /\ resp'[p].json =
                     [origin |-> [id |-> b.origin, balance |-> store[b.origin] - b.amount],
                      destination |-> [id |-> b.destination, balance |-> b.amount]]]_vars

\* C7 witness: the only request so far, a transfer to an account that did not exist,
\* was answered 201 and the destination now holds the amount.
C7_Witness ==
    \E p \in DOMAIN pc :
        /\ \A q \in DOMAIN pc \ {p} : pc[q] = "idle"
        /\ Kind(req[p]) = "transfer" /\ resp[p].status = 201
        /\ req[p].body.destination \notin DOMAIN store0
        /\ req[p].body.destination \in DOMAIN store
        /\ store[req[p].body.destination] = req[p].body.amount

\* every account reads as zero: it does not exist and a balance query answers "0"
AllReadZero ==
    \A a \in Accounts : a \notin DOMAIN store /\ BalanceResponse(Get(store, a)).body = "0"

\* the reset of p ran with no deposit and no transfer in flight
ResetUndisturbed(p) == shared[p] \cap {"deposit", "transfer"} = {}

\* C8 as claimed: once a reset was answered OK, and as long as no deposit or transfer
\* is submitted after, every account reads as zero, whatever was in flight
\* while the reset ran.
C8_AfterResetAllZero == quiet # {} => AllReadZero

\* C8 as amended: once a reset was answered OK during which no deposit and no
\* transfer was in flight, and as long as no deposit or transfer is submitted
\* after, every account reads as zero.
C8_AfterUndisturbedResetAllZero ==
    (\E p \in quiet : ResetUndisturbed(p)) => AllReadZero

\* C8 witness: the store held accounts, a reset ran undisturbed and was answered OK,
\* and no deposit or transfer was submitted since.
C8_Witness ==
    /\ store0 # EmptyStore
    /\ \E p \in quiet : ResetUndisturbed(p) /\ SameResponse(resp[p], SendText(200, "OK"))

\* the decimal text of a balance
DecimalText(n) ==
    CASE n = 0 -> "0"
      [] n = 1 -> "1" [] n = 2 -> "2" [] n = 3 -> "3" [] n = 4 -> "4"
      [] n = 5 -> "5" [] n = 6 -> "6" [] n = 7 -> "7" [] n = 8 -> "8"
      [] n = -1 -> "-1" [] n = -2 -> "-2" [] n = -3 -> "-3" [] n = -4 -> "-4"
      [] n = -5 -> "-5" [] n = -6 -> "-6" [] n = -7 -> "-7" [] n = -8 -> "-8"

\* the step is p's balance query reading the account and answering
AnswersBalance(p) == pc[p] = "balance_get" /\ pc'[p] = "done"

\* C9 as claimed: a balance query for an account that does not exist is answered
\* with a success status and a zero balance; for an account that exists, with
\* exactly the stored balance; and it never changes the store.
C9_BalanceOfMissingIsSuccess ==
    [][\A p \in DOMAIN pc :
         AnswersBalance(p) =>
            LET a == req[p].query.account_id
            IN  /\ a \notin DOMAIN store
                   => resp'[p].status \in 200..299 /\ resp'[p].body = "0"
                /\ a \in DOMAIN store
                   => SameResponse(resp'[p], SendText(200, DecimalText(store[a])))
                /\ store' = store]_vars

\* C9 as amended: a balance query for an account that does not exist is answered
\* with status 404 and the body "0"; for an account that exists, with status 200
\* and exactly the stored balance as text; and it never changes the store.
C9_BalanceOfMissingIs404Zero ==
    [][\A p \in DOMAIN pc :
         AnswersBalance(p) =>
            LET a == req[p].query.account_id
            IN  /\ a \notin DOMAIN store => SameResponse(resp'[p], SendText(404, "0"))
                /\ a \in DOMAIN store
                   => SameResponse(resp'[p], SendText(200, DecimalText(store[a])))
                /\ store' = store]_vars

\* C9 witness: a balance query for an account that does not exist was answered
\* 404 "0", and one for an account that exists was answered with its balance.
C9_Witness ==
    \E p, q \in DOMAIN pc :
        /\ Kind(req[p]) = "balance" /\ SameResponse(resp[p], SendText(404, "0"))
        /\ req[p].query.account_id \notin DOMAIN store
        /\ Kind(req[q]) = "balance" /\ resp[q].status = 200
        /\ req[q].query.account_id \in DOMAIN store
        /\ resp[q].body = DecimalText(store[req[q].query.account_id])

\* C10: a deposit of amount a during which no other request on its destination is
\* in flight changes nothing when it reads, and when it writes it creates a
\* destination that does not exist with balance a, or sets an existing one of
\* balance B to B + a; it changes no other account and is answered 201 with the
\* destination id and that new balance.
C10_DepositAlone ==
    [][\A p \in DOMAIN pc :
         pc[p] \in {"deposit_get", "deposit_write"} /\ pc'[p] # pc[p] /\ shared[p] = {} =>
            LET b == req[p].body
                new == IF b.destination \in DOMAIN store
                       THEN store[b.destination] + b.amount
                       ELSE b.amount
            IN  /\ pc[p] = "deposit_get" => store' = store
                /\ pc[p] = "deposit_write"
                   => /\ pc'[p] = "done"
                      /\ store' = [a \in DOMAIN store \cup {b.destination} |->
                                     IF a = b.destination THEN new ELSE store[a]]
                      /\ SameResponse(resp'[p],
                            SendJson(201, [destination |->
                                              [id |-> b.destination, balance |-> new]]))]_vars

\* C10 witness: the only request so far, a deposit to an account that existed, was
\* answered 201 and the account holds its former balance plus the amount.
C10_Witness ==
    \E p \in DOMAIN pc :
        /\ \A q \in DOMAIN pc \ {p} : pc[q] = "idle"
        /\ Kind(req[p]) = "deposit" /\ resp[p].status = 201
        /\ req[p].body.destination \in DOMAIN store0
        /\ store[req[p].body.destination]
             = store0[req[p].body.destination] + req[p].body.amount

\* the step is p's withdraw reading its origin
ReadsOrigin(p) == pc[p] = "withdraw_get" /\ pc'[p] # "withdraw_get"

\* C11: a withdraw that finds its origin with a balance smaller than the amount is
\* answered 400 insufficient funds at once, and that step leaves every account as
\* it was; a withdraw answered that way has written nothing.
C11_WithdrawInsufficientFundsNoEffect ==
    [][\A p \in DOMAIN pc :
         ReadsOrigin(p) =>
            LET b == req[p].body
            IN  b.origin \in DOMAIN store /\ store[b.origin] < b.amount
                  => /\ SameResponse(resp'[p], SendStatus(400, "Insufficient funds."))
                     /\ pc'[p] = "done"
                     /\ store' = store]_vars

\* C11 witness: the only request so far, a withdraw of more than its origin held,
\* was answered 400 insufficient funds and the store is the initial one.
C11_Witness ==
    \E p \in DOMAIN pc :
        /\ \A q \in DOMAIN pc \ {p} : pc[q] = "idle"
        /\ Kind(req[p]) = "withdraw" /\ pc[p] = "done"
        /\ SameResponse(resp[p], SendStatus(400, "Insufficient funds."))
        /\ req[p].body.origin \in DOMAIN store0
        /\ store0[req[p].body.origin] < req[p].body.amount
        /\ store = store0

\* C12: a withdraw of amount a during which no other request on its origin is in
\* flight, from an origin that exists with balance B >= a, changes nothing when it
\* reads, and when it writes it sets the origin to exactly B - a, changes no other
\* account and is answered 201 with the origin id and B - a; a withdraw that finds
\* no origin is answered 404 "0" and the store stays as it was.
C12_WithdrawAlone ==
    [][\A p \in DOMAIN pc :
         pc[p] \in {"withdraw_get", "withdraw_write"} /\ pc'[p] # pc[p] =>
            LET b == req[p].body
                exists == b.origin \in DOMAIN store
            IN  /\ pc[p] = "withdraw_get" /\ ~exists
                   => /\ SameResponse(resp'[p], SendText(404, "0"))
                      /\ pc'[p] = "done"
                      /\ store' = store
                /\ pc[p] = "withdraw_get" /\ exists /\ store[b.origin] >= b.amount
                   => pc'[p] = "withdraw_write" /\ store' = store
                /\ pc[p] = "withdraw_write" /\ shared[p] = {}
                   => /\ exists /\ store[b.origin] >= b.amount
                      /\ pc'[p] = "done"
                      /\ store' = [a \in DOMAIN store |->
                                     IF a = b.origin THEN store[a] - b.amount
                                     ELSE store[a]]
                      /\ SameResponse(resp'[p],
                            SendJson(201, [origin |->
                                  [id |-> b.origin,
                                   balance |-> store[b.origin] - b.amount]]))]_vars

\* C12 witness: the only two requests so far ran one after the other: a withdraw
\* from an account that held at least the amount, answered 201, the account now
\* holding its former balance less the amount; and a withdraw from an account that
\* does not exist, answered 404 "0", the account still not existing.
C12_Witness ==
    \E p, q \in DOMAIN pc :
        /\ Kind(req[p]) = "withdraw" /\ resp[p].status = 201 /\ shared[p] = {}
        /\ req[p].body.origin \in DOMAIN store0
        /\ store0[req[p].body.origin] >= req[p].body.amount
        /\ store = [store0 EXCEPT ![req[p].body.origin] = @ - req[p].body.amount]
        /\ Kind(req[q]) = "withdraw" /\ SameResponse(resp[q], SendText(404, "0"))
        /\ req[q].body.origin \notin DOMAIN store

\* the step is the arrival of p's request, served up to its first await
Arrives(p) == pc[p] = "idle" /\ pc'[p] # "idle"

\* the field f is missing from the body b
Absent(b, f) == f \notin DOMAIN b

\* the 400 answer the claim expects for the event body b, NoResp when the body
\* lacks no field and is of a known type
ValidationError(b) ==
    IF Absent(b, "type") THEN SendStatus(400, "Invalid event type.")
    ELSE IF b.type = "deposit" THEN
        IF Absent(b, "destination") \/ Absent(b, "amount")
        THEN SendStatus(400, "Missing destination or amount.") ELSE NoResp
    ELSE IF b.type = "withdraw" THEN
        IF Absent(b, "origin") \/ Absent(b, "amount")
        THEN SendStatus(400, "Missing origin or amount.") ELSE NoResp
    ELSE IF b.type = "transfer" THEN
        IF Absent(b, "origin") \/ Absent(b, "amount") \/ Absent(b, "destination")
        THEN SendStatus(400, "Missing origin, amount, or destination.") ELSE NoResp
    ELSE SendStatus(400, "Invalid event type.")

\* the answer is one of the four validation errors of the event handler
IsValidationError(r) ==
    /\ r.status = 400 /\ r.type = "status"
    /\ r.body \in {"Missing destination or amount.", "Missing origin or amount.",
                   "Missing origin, amount, or destination.", "Invalid event type."}

\* C13: an event request that lacks a required field of its type, or is of an
\* unknown type, is answered with the 400 validation error of its type as it
\* arrives; and every event request answered with a validation error was answered
\* as it arrived, before any store call, the store being what it was.
C13_ValidationPrecedesMutation ==
    [][\A p \in DOMAIN pc :
         /\ Arrives(p) /\ req'[p].fn = "event" /\ req'[p].method = "POST"
              /\ ValidationError(req'[p].body) # NoResp
            => SameResponse(resp'[p], ValidationError(req'[p].body))
         /\ resp'[p] # resp[p] /\ IsValidationError(resp'[p])
            => Arrives(p) /\ pc'[p] = "done" /\ store' = store
         /\ pc[p] = "done" => pc'[p] = "done" /\ resp'[p] = resp[p]]_vars

\* C13 witness: the store holds accounts, and two event requests were answered
\* with a validation error, one for a missing field and one for an unknown type.
C13_Witness ==
    \E p, q \in DOMAIN pc :
        /\ store = store0 /\ store # EmptyStore
        /\ pc[p] = "done" /\ Kind(req[p]) \in {"deposit", "withdraw", "transfer"}
        /\ Absent(req[p].body, "amount")
        /\ IsValidationError(resp[p]) /\ resp[p].body # "Invalid event type."
        /\ pc[q] = "done" /\ Kind(req[q]) = "refund"
        /\ SameResponse(resp[q], SendStatus(400, "Invalid event type."))

\* the step is a reset committing its batch of deletes
ResetDeletes(p) == pc[p] = "reset_commit" /\ pc'[p] = "done"

\* C14: an account that exists keeps existing through every step that is not the
\* commit of a reset's batch; and a step that creates an account is the write of a
\* deposit or the commit of a transfer, never a step of a withdraw or of a balance
\* query.
C14_OnlyResetDeletes ==
    [][/\ (\E a \in DOMAIN store : a \notin DOMAIN store')
            => \E p \in DOMAIN pc : ResetDeletes(p) /\ Kind(req[p]) = "reset"
       /\ (\E a \in DOMAIN store' : a \notin DOMAIN store)
            => \E p \in DOMAIN pc :
                  /\ pc'[p] # pc[p]
                  /\ \/ Kind(req[p]) = "deposit" /\ pc[p] = "deposit_write"
                     \/ Kind(req[p]) = "transfer" /\ pc[p] = "tx_commit"]_vars

\* C14 witness: a withdraw emptied an account, which went on existing with
\* balance 0, and a reset that came after was answered OK and has deleted it.
C14_Witness ==
    \E p, q \in DOMAIN pc :
        /\ Kind(req[p]) = "withdraw" /\ resp[p].status = 201
        /\ resp[p].json.origin.balance = 0
        /\ Kind(req[q]) = "reset" /\ SameResponse(resp[q], SendText(200, "OK"))
        /\ shared[q] = {}
        /\ req[p].body.origin \in DOMAIN store0
        /\ store = EmptyStore

\* the event body b names every field of its type and its amount is 0
ZeroAmount(b) ==
    /\ "type" \in DOMAIN b /\ "amount" \in DOMAIN b /\ b.amount = 0
    /\ \/ b.type = "deposit" /\ "destination" \in DOMAIN b /\ b.destination # ""
       \/ b.type = "withdraw" /\ "origin" \in DOMAIN b /\ b.origin # ""
       \/ /\ b.type = "transfer"
          /\ "origin" \in DOMAIN b /\ b.origin # ""
          /\ "destination" \in DOMAIN b /\ b.destination # ""

\* the missing-parameter answer of the event type t
MissingParameter(t) ==
    CASE t = "deposit" -> SendStatus(400, "Missing destination or amount.")
      [] t = "withdraw" -> SendStatus(400, "Missing origin or amount.")
      [] t = "transfer" -> SendStatus(400, "Missing origin, amount, or destination.")

\* C20: an event request with amount 0 and every other field of its type present
\* is answered with the 400 missing-parameter error of its type as it arrives, the
\* store being what it was, and no store call follows; and the write of a deposit
\* never creates an account with balance 0.
C20_ZeroAmountIsMissing ==
    [][\A p \in DOMAIN pc :
         /\ Arrives(p) /\ req'[p].fn = "event" /\ req'[p].method = "POST"
              /\ ZeroAmount(req'[p].body)
            => /\ SameResponse(resp'[p], MissingParameter(req'[p].body.type))
               /\ pc'[p] = "done"
               /\ store' = store
         /\ pc[p] = "deposit_write" /\ pc'[p] # pc[p]
            => \A a \in DOMAIN store' \ DOMAIN store : store'[a] # 0]_vars

\* C20 witness: a deposit of 0 to an account that does not exist was answered 400
\* and the account still does not exist, and a deposit of another amount to an
\* account that did not exist was answered 201 and has created it.
C20_Witness ==
    \E p, q \in DOMAIN pc :
        /\ Kind(req[p]) = "deposit" /\ req[p].method = "POST" /\ ZeroAmount(req[p].body)
        /\ SameResponse(resp[p], MissingParameter("deposit"))
        /\ req[p].body.destination \notin DOMAIN store
        /\ Kind(req[q]) = "deposit" /\ resp[q].status = 201
        /\ req[q].body.destination \in DOMAIN store \ DOMAIN store0

\* the step is p's deposit writing the new balance, answered 201
Deposits(p) == pc[p] = "deposit_write" /\ pc'[p] = "done"

\* what a request answered 201 says it added to its account
Delta(r) ==
    CASE Kind(r) = "deposit" -> r.body.amount
      [] Kind(r) = "withdraw" -> 0 - r.body.amount

\* C17: the write of a deposit or of a withdraw stores, and reports with status
\* 201, the balance computed from the snapshot the handler read at its earlier
\* store call, whatever the account holds at the time of the write.
C17_WritesWhatItRead ==
    [][\A p \in DOMAIN pc :
         /\ Deposits(p)
            => LET b == req[p].body
                   new == IF accountSnapshot[p].exists
                          THEN accountSnapshot[p].balance + b.amount
                          ELSE b.amount
               IN  /\ store'[b.destination] = new
                   /\ SameResponse(resp'[p],
                         SendJson(201, [destination |->
                                           [id |-> b.destination, balance |-> new]]))
         /\ Withdraws(p)
            => LET b == req[p].body
                   new == accountSnapshot[p].balance - b.amount
               IN  /\ store'[b.origin] = new
                   /\ SameResponse(resp'[p],
                         SendJson(201, [origin |-> [id |-> b.origin, balance |-> new]]))]_vars

\* C17 witness: two deposits to one account that existed were in flight together,
\* no other request touched the account, both were answered 201, and the account
\* holds its initial balance plus the amount of one of them only.
C17_Witness ==
    \E p, q \in DOMAIN pc :
        /\ p # q
        /\ Kind(req[p]) = "deposit" /\ resp[p].status = 201 /\ shared[p] = {"deposit"}
        /\ Kind(req[q]) = "deposit" /\ resp[q].status = 201 /\ shared[q] = {"deposit"}
        /\ req[p].body.destination = req[q].body.destination
        /\ req[p].body.destination \in DOMAIN store0
        /\ LET a == req[p].body.destination
           IN  /\ store[a] = store0[a] + Delta(req[p])
               /\ store[a] # store0[a] + Delta(req[p]) + Delta(req[q])

\* the sum of the balances of all accounts of the store s
RECURSIVE SumOf(_, _)
SumOf(s, ids) ==
    IF ids = {} THEN 0
    ELSE LET a == CHOOSE x \in ids : TRUE
         IN  s[a] + SumOf(s, ids \ {a})

TotalBalance(s) == SumOf(s, DOMAIN s)

\* what the requests answered with success have deposited, less what they have
\* withdrawn
RECURSIVE NetDeposited(_)
NetDeposited(ps) ==
    IF ps = {} THEN 0
    ELSE LET p == CHOOSE x \in ps : TRUE
         IN  (IF Kind(req[p]) \in {"deposit", "withdraw"} /\ resp[p].status = 201
              THEN Delta(req[p]) ELSE 0)
             + NetDeposited(ps \ {p})

\* the requests of the behaviour are one transfer between two different accounts
\* and deposits and withdraws on its origin or destination, all of a positive
\* amount, and all have been answered
TransferAmongDepositsDone ==
    \E t \in DOMAIN pc :
        /\ Kind(req[t]) = "transfer" /\ req[t].body \in TransferBodies
        /\ req[t].body.origin # req[t].body.destination
        /\ \A p \in DOMAIN pc :
              /\ pc[p] = "done"
              /\ req[p].fn = "event" /\ "amount" \in DOMAIN req[p].body
              /\ req[p].body.amount > 0
              /\ p # t => /\ req[p].fn = "event"
                          /\ req[p].body \in DepositBodies \cup WithdrawBodies
                          /\ Touches(req[p]) \subseteq Touches(req[t])

\* C19: once a transfer and the deposits and withdraws on its accounts that ran
\* with it have all completed, the sum of all balances is the initial sum plus the
\* amounts of the deposits answered with success minus the amounts of the
\* withdraws answered with success.
C19_TransferConsistentAmongDeposits ==
    TransferAmongDepositsDone
        => TotalBalance(store) = TotalBalance(store0) + NetDeposited(DOMAIN pc)

\* the answer is a 500 whose body is one of the fixed texts of the handlers
GenericFailure(r) ==
    \/ SameResponse(r, SendText(500, "Error deleting accounts"))
    \/ SameResponse(r, SendStatus(500, "Transaction failed."))

\* C15: whenever a store call of a reset, balance, deposit, withdraw or transfer
\* request fails, the handler ends answering that request with a 500 of a fixed
\* text.
C15_StoreFailureAnswered500 ==
    [][\A p \in DOMAIN pc :
         StoreError(p) => pc'[p] = "done" /\ GenericFailure(resp'[p])]_vars

\* the client's requests are those of the scenario of the claim
ClaimedScenario == \A p \in DOMAIN req : req[p] = Scenario(100, 40, 1000)[p]

\* the answer to the p-th request, once it is there, is r
Answered(p, r) == pc[p] = "done" => SameResponse(resp[p], r)

\* C16: from an empty store, run one after the other: the deposit of 100 to alice
\* is answered 201 and the balance of alice reads "100"; the transfer of 40 from
\* alice to bob is answered 201 with alice at 60 and bob at 40; the withdraw of 1000
\* from alice is answered 400 insufficient funds; and after it the balance of
\* alice reads "60" and that of bob "40".
C16_ConcreteScenario ==
    ClaimedScenario =>
        /\ Answered(1, SendJson(201, [destination |-> [id |-> "alice", balance |-> 100]]))
        /\ Answered(2, SendText(200, "100"))
        /\ Answered(3, SendJson(201, [origin |-> [id |-> "alice", balance |-> 60],
                                      destination |-> [id |-> "bob", balance |-> 40]]))
        /\ Answered(4, SendStatus(400, "Insufficient funds."))
        /\ Answered(5, SendText(200, "60"))
        /\ Answered(6, SendText(200, "40"))
        /\ \A p \in DOMAIN pc : pc[p] # "failed"

\* C16 witness: the scenario of the claim has run to its end, every request is
\* answered, the last two with "60" and "40", and the store holds alice at 60 and
\* bob at 40.
C16_Witness ==
    /\ ClaimedScenario
    /\ \A p \in DOMAIN pc : pc[p] = "done"
    /\ resp[4].status = 400 /\ resp[5].body = "60" /\ resp[6].body = "40"
    /\ store = [a \in Accounts |-> IF a = "alice" THEN 60 ELSE 40]

\* the step ends p's transfer handler
EndsTransfer(p) == InTransfer(p) /\ ~InTransfer(p)'

\* the four answers of the transfer handler
OriginMissing == SendText(404, "0")
InsufficientFunds == SendStatus(400, "Insufficient funds.")
TransactionFailed == SendStatus(500, "Transaction failed.")
Transferred(o, newO, d, newD) ==
    SendJson(201, [origin |-> [id |-> o, balance |-> newO],
                   destination |-> [id |-> d, balance |-> newD]])

\* the store s after it applied, as one, the debit of o to newO then the credit of
\* d to newD
Applied(s, o, newO, d, newD) ==
    [a \in DOMAIN s \cup {d} |-> IF a = d THEN newD ELSE IF a = o THEN newO ELSE s[a]]

\* the answer r and the store t are what ending p's handler may produce from the
\* current state: a store call may always have failed (500, nothing written);
\* otherwise the handler ends after the second read when the origin it read is
\* missing (404 "0") or short of the amount (400), nothing written, and at the
\* commit of an attempt that read documents nobody wrote since (201, the new
\* balances, both written)
TransferOutcome(p, r, t) ==
    LET b == req[p].body
        o == originDoc[p]
        d == destinationDoc[p]
        newO == o.balance - b.amount
        newD == (IF d.exists THEN d.balance ELSE 0) + b.amount
    IN  \/ SameResponse(r, TransactionFailed) /\ t = store
        \/ /\ pc[p] = "tx_get_destination" /\ ~o.exists
           /\ SameResponse(r, OriginMissing) /\ t = store
        \/ /\ pc[p] = "tx_get_destination" /\ o.exists /\ o.balance < b.amount
           /\ SameResponse(r, InsufficientFunds) /\ t = store
        \/ /\ pc[p] = "tx_commit" /\ ~dirty[p]
           /\ SameResponse(r, Transferred(b.origin, newO, b.destination, newD))
           /\ t = Applied(store, b.origin, newO, b.destination, newD)

\* the handler answers once: a request that is answered stays answered as it was
AnswersOnce(p) == pc[p] = "done" => pc'[p] = "done" /\ resp'[p] = resp[p]

\* the steps of a transfer handler: it ends answered, with an outcome and its
\* own answer, and a step that does not end it writes nothing and answers nothing
TransferAnswersMapped ==
    [][\A p \in DOMAIN pc :
         /\ EndsTransfer(p) => pc'[p] = "done" /\ TransferOutcome(p, resp'[p], store')
         /\ InTransfer(p) /\ InTransfer(p)' /\ pc'[p] # pc[p]
            => resp'[p] = NoResp /\ store' = store
         /\ AnswersOnce(p)]_vars

\* every transfer is answered in the end
TransfersAllAnswered ==
    <>(\A p \in DOMAIN pc : pc[p] = "done" /\ resp[p].status \in {201, 400, 404, 500})

====
